---- MODULE Spec2Model ----
(***************************************************************************)
(* State-machine model of the data-model diagram editor (FlowApp in        *)
(* src/unnamed/part_000, TableNode in src/src/TableNode.js).               *)
(*                                                                         *)
(* Text typed into the schema box is a sequence of one-character strings,  *)
(* so that splitting, trimming and the (pk)/(fk)/(ck) regular expressions  *)
(* are computed character by character as the JavaScript does.             *)
(* A table name is a TLA+ string ("" is the empty, falsy name).            *)
(* Node ids `node_${t}` are <<"node", t>>, edge ids `e-${t}` are           *)
(* <<"e", t>>; JavaScript null / '' / undefined for an id or a marker is   *)
(* the empty tuple.                                                        *)
(***************************************************************************)
EXTENDS Integers, Sequences, FiniteSets, TLC

VARIABLES
    nodes,          \* useState nodes: sequence of node records
    edges,          \* useState edges: sequence of edge records
    tableName,      \* form: table name input
    schemaText,     \* form: schema textarea (sequence of characters)
    selectedColor,  \* form: selected swatch hex
    relType,        \* relationship type select
    edgeToDelete,   \* delete-link select
    editingNodeId,  \* id of the node being edited, or NULL
    legend,         \* useState legend: sequence of [id, name, hex]
    storage,        \* localStorage: keys nodes, edges, legend
    now,            \* the latest value Date.now() has returned
    last            \* the handler that ran last, with its inputs / outcome

vars == <<nodes, edges, tableName, schemaText, selectedColor, relType,
          edgeToDelete, editingNodeId, legend, storage, now, last>>

NULL == <<>>

----------------------------------------------------------------------------
(* Bounds of the model *)

MaxTokens == 3
MaxTime == 1
MaxNodes == 2
MaxEdges == 2

----------------------------------------------------------------------------
(* Characters and strings *)

Str_pk == <<"(", "p", "k", ")">>
Str_FK == <<"(", "F", "K", ")">>
Str_ck == <<"(", "c", "k", ")">>

\* String.prototype.trim strips white space; the schema box can hold blanks
\* and line breaks.
IsWhitespace(c) == c \in {" ", "\n", "\t"}

\* Case folding of the /i flag for the letters the patterns mention.
Lower(c) ==
    CASE c = "P" -> "p"
      [] c = "F" -> "f"
      [] c = "C" -> "c"
      [] c = "K" -> "k"
      [] OTHER -> c

RECURSIVE TrimStart(_)
TrimStart(s) ==
    IF s = <<>> THEN s
    ELSE IF IsWhitespace(Head(s)) THEN TrimStart(Tail(s)) ELSE s

RECURSIVE TrimEnd(_)
TrimEnd(s) ==
    IF s = <<>> THEN s
    ELSE IF IsWhitespace(s[Len(s)]) THEN TrimEnd(SubSeq(s, 1, Len(s) - 1)) ELSE s

\* item.trim()
Trim(s) == TrimEnd(TrimStart(s))

\* schemaText.split(','): n commas give n + 1 items, '' gives [''].
RECURSIVE SplitFrom(_, _, _, _)
SplitFrom(s, i, cur, acc) ==
    IF i > Len(s) THEN Append(acc, cur)
    ELSE IF s[i] = "," THEN SplitFrom(s, i + 1, <<>>, Append(acc, cur))
    ELSE SplitFrom(s, i + 1, Append(cur, s[i]), acc)

Split(s) == SplitFrom(s, 1, <<>>, <<>>)

\* Does /\((pk|fk|ck)\)/i match at position i of s, for the letters in kinds?
MatchAt(s, i, kinds) ==
    /\ i + 3 <= Len(s)
    /\ s[i] = "("
    /\ Lower(s[i + 1]) \in kinds
    /\ Lower(s[i + 2]) = "k"
    /\ s[i + 3] = ")"

\* /\(pk\)/i.test(item), /\(fk\)/i.test(item), /\(ck\)/i.test(item)
TestMarker(item, kind) == \E i \in 1..Len(item) : MatchAt(item, i, {kind})

\* item.replace(/\((pk|fk|ck)\)/gi, ''): one left-to-right pass, every
\* match dropped, the scan resuming after the match.
RECURSIVE ReplaceFrom(_, _, _, _)
ReplaceFrom(s, i, acc, global) ==
    IF i > Len(s) THEN acc
    ELSE IF MatchAt(s, i, {"p", "f", "c"})
         THEN IF global THEN ReplaceFrom(s, i + 4, acc, global)
              ELSE acc \o SubSeq(s, i + 4, Len(s))
         ELSE ReplaceFrom(s, i + 1, Append(acc, s[i]), global)

\* Variant of ReplaceMarkers without the g flag: only the first match goes.
ReplaceMarkersFirstOnly(item) == ReplaceFrom(item, 1, <<>>, FALSE)

ReplaceMarkers(item) == ReplaceFrom(item, 1, <<>>, TRUE)

\* The column object built from one trimmed, non-empty item.
ColumnOf(item) ==
    [ name |-> Trim(ReplaceMarkers(item)),
      isPK |-> TestMarker(item, "p"),
      isFK |-> TestMarker(item, "f"),
      isCK |-> TestMarker(item, "c") ]

IsNonEmptyItem(i) == i # <<>>

\* const columns = schemaText.split(',').map(trim).filter(non-empty).map(column)
ParseColumns(text) ==
    LET items == Split(text)
        trimmed == [k \in 1..Len(items) |-> Trim(items[k])]
        kept == SelectSeq(trimmed, IsNonEmptyItem)
    IN  [k \in 1..Len(kept) |-> ColumnOf(kept[k])]

\* The tag onStartEdit writes after a column name.
TagOf(c) ==
    IF c.isPK THEN <<" ">> \o Str_pk
    ELSE IF c.isFK THEN <<" ", "(", "f", "k", ")">>
    ELSE IF c.isCK THEN <<" ">> \o Str_ck
    ELSE <<>>

\* data.columns.map(c => `${c.name}${tag}`).join(', ')
RECURSIVE JoinFrom(_, _)
JoinFrom(columns, k) ==
    IF k > Len(columns) THEN <<>>
    ELSE (IF k > 1 THEN <<",", " ">> ELSE <<>>)
         \o columns[k].name \o TagOf(columns[k]) \o JoinFrom(columns, k + 1)

FormatColumns(columns) == JoinFrom(columns, 1)

----------------------------------------------------------------------------
(* Program constants *)

INITIAL_LEGEND ==
    << [id |-> "1",  name |-> "Reporting",   hex |-> "#fbbf24"],
       [id |-> "2",  name |-> "Warehouse",   hex |-> "#94a3b8"],
       [id |-> "3",  name |-> "Staging",     hex |-> "#cd7f32"],
       [id |-> "4",  name |-> "Refined",     hex |-> "#10b981"],
       [id |-> "5",  name |-> "Sensitive",   hex |-> "#f43f5e"],
       [id |-> "6",  name |-> "External",    hex |-> "#a855f7"],
       [id |-> "7",  name |-> "Master Data", hex |-> "#3b82f6"],
       [id |-> "8",  name |-> "Audit/Logs",  hex |-> "#64748b"],
       [id |-> "9",  name |-> "Temporary",   hex |-> "#ec4899"],
       [id |-> "10", name |-> "Archive",     hex |-> "#0f172a"] >>

RelTypes == {"1:1", "1:N", "N:M"}

\* position: { x: 350, y: 150 } of a new node
NewNodePosition == [x |-> 350, y |-> 150]

\* The position a drag leaves a node at.
DraggedPosition == [x |-> 0, y |-> 0]

\* The handles a TableNode renders.
SourceHandles == {"top-source", "bottom-source", "left-source", "right-source"}
TargetHandles == {"top-target", "bottom-target", "left-target", "right-target"}

\* markerEnd of a 1:1 edge: { type: MarkerType.ArrowClosed, color, width, height }
ArrowClosedMarker == <<"arrowclosed", "#3b82f6", 15, 15>>
ManySide == <<"many-side">>
Undefined == <<>>

----------------------------------------------------------------------------
(* Helpers over the state *)

\* Date.now(): the wall clock in milliseconds.  A call returns the value of
\* the call before it or a later one; nothing makes two calls differ.
DateNow == now..MaxTime

NodeIds == {nodes[i].id : i \in 1..Len(nodes)}
EdgeIds == {edges[i].id : i \in 1..Len(edges)}

\* useEffect(() => { localStorage.setItem('nodes', ...); setItem('edges', ...) },
\*           [nodes, edges])
Persist(nds, eds) == storage' = [storage EXCEPT !.nodes = nds, !.edges = eds]

\* nds.filter(n => n.id !== id)
RECURSIVE FilterNodes(_, _)
\* Variant of FilterNodes that drops only the first node with the id.
FilterNodesFirstMatch(nds, id) ==
    IF nds = <<>> THEN <<>>
    ELSE IF Head(nds).id # id
         THEN <<Head(nds)>> \o FilterNodes(Tail(nds), id)
         ELSE Tail(nds)

FilterNodes(nds, id) ==
    IF nds = <<>> THEN <<>>
    ELSE IF Head(nds).id # id
         THEN <<Head(nds)>> \o FilterNodes(Tail(nds), id)
         ELSE FilterNodes(Tail(nds), id)

\* eds.filter(e => e.source !== id && e.target !== id)
RECURSIVE FilterEdgesOfNode(_, _)
\* Variant of FilterEdgesOfNode that looks at the source only.
FilterEdgesOfNodeSourceOnly(eds, id) == SelectSeq(eds, LAMBDA e : e.source # id)

FilterEdgesOfNode(eds, id) ==
    IF eds = <<>> THEN <<>>
    ELSE IF Head(eds).source # id /\ Head(eds).target # id
         THEN <<Head(eds)>> \o FilterEdgesOfNode(Tail(eds), id)
         ELSE FilterEdgesOfNode(Tail(eds), id)

\* eds.filter(e => e.id !== edgeToDelete)
RECURSIVE FilterEdgesById(_, _)
FilterEdgesById(eds, id) ==
    IF eds = <<>> THEN <<>>
    ELSE IF Head(eds).id # id
         THEN <<Head(eds)>> \o FilterEdgesById(Tail(eds), id)
         ELSE FilterEdgesById(Tail(eds), id)

\* reactflow connectionExists(edge, edges)
ConnectionExists(edge, eds) ==
    \E i \in 1..Len(eds) :
        /\ eds[i].source = edge.source
        /\ eds[i].target = edge.target
        /\ eds[i].sourceHandle = edge.sourceHandle
        /\ eds[i].targetHandle = edge.targetHandle

\* reactflow addEdge(edge, eds): the edge has an id, so it is kept as given
\* and appended unless its connection is already there.
addEdge(edge, eds) ==
    IF edge.source = NULL \/ edge.target = NULL THEN eds
    ELSE IF ConnectionExists(edge, eds) THEN eds
    ELSE Append(eds, edge)

\* The (markerStart, markerEnd) pair onConnect picks for a relationship type.
\* Variant of MarkersOf with the 1:N and N:M branches exchanged.
MarkersOfSwapped(rt) ==
    IF rt = "1:1" THEN <<Undefined, ArrowClosedMarker>>
    ELSE IF rt = "1:N" THEN <<ManySide, ManySide>>
    ELSE IF rt = "N:M" THEN <<Undefined, ManySide>>
    ELSE <<Undefined, Undefined>>

MarkersOf(rt) ==
    IF rt = "1:1" THEN <<Undefined, ArrowClosedMarker>>
    ELSE IF rt = "1:N" THEN <<Undefined, ManySide>>
    ELSE IF rt = "N:M" THEN <<ManySide, ManySide>>
    ELSE <<Undefined, Undefined>>

----------------------------------------------------------------------------
(* Initial state: first load, nothing in localStorage *)

Init ==
    /\ nodes = <<>>
    /\ edges = <<>>
    /\ tableName = ""
    /\ schemaText = <<>>
    /\ selectedColor = "#fbbf24"
    /\ relType = "1:N"
    /\ edgeToDelete = NULL
    /\ editingNodeId = NULL
    /\ legend = INITIAL_LEGEND
    /\ storage = [nodes |-> <<>>, edges |-> <<>>, legend |-> <<>>]
    /\ now = 0
    /\ last = [op |-> "init", arg |-> <<>>]

----------------------------------------------------------------------------
(* Form inputs *)

setTableName(v) ==
    /\ tableName' = v
    /\ last' = [op |-> "setTableName", arg |-> <<>>]
    /\ UNCHANGED <<nodes, edges, schemaText, selectedColor, relType,
                   edgeToDelete, editingNodeId, legend, storage, now>>

setSchemaText(v) ==
    /\ schemaText' = v
    /\ last' = [op |-> "setSchemaText", arg |-> <<>>]
    /\ UNCHANGED <<nodes, edges, tableName, selectedColor, relType,
                   edgeToDelete, editingNodeId, legend, storage, now>>

\* onClick of a legend swatch
setSelectedColor(hex) ==
    /\ selectedColor' = hex
    /\ last' = [op |-> "setSelectedColor", arg |-> <<>>]
    /\ UNCHANGED <<nodes, edges, tableName, schemaText, relType,
                   edgeToDelete, editingNodeId, legend, storage, now>>

setRelType(v) ==
    /\ relType' = v
    /\ last' = [op |-> "setRelType", arg |-> <<>>]
    /\ UNCHANGED <<nodes, edges, tableName, schemaText, selectedColor,
                   edgeToDelete, editingNodeId, legend, storage, now>>

\* onChange of the delete-link select: '' or the id of a listed edge
setEdgeToDelete(v) ==
    /\ v \in {NULL} \cup EdgeIds
    /\ edgeToDelete' = v
    /\ last' = [op |-> "setEdgeToDelete", arg |-> <<>>]
    /\ UNCHANGED <<nodes, edges, tableName, schemaText, selectedColor,
                   relType, editingNodeId, legend, storage, now>>

----------------------------------------------------------------------------
(* Legend *)

\* Variant of RenameIn without the id test: every entry is renamed.
RenameInNoMatch(prev, id, newName) ==
    [k \in 1..Len(prev) |-> [prev[k] EXCEPT !.name = newName]]

RenameIn(prev, id, newName) ==
    [k \in 1..Len(prev) |->
        IF prev[k].id = id THEN [prev[k] EXCEPT !.name = newName] ELSE prev[k]]

handleRenameLegend(id, newName) ==
    LET updated == RenameIn(legend, id, newName)
    IN  /\ legend' = updated
        /\ storage' = [storage EXCEPT !.legend = updated]
        /\ last' = [op |-> "handleRenameLegend", arg |-> <<id, newName>>]
        /\ UNCHANGED <<nodes, edges, tableName, schemaText, selectedColor,
                       relType, edgeToDelete, editingNodeId, now>>

----------------------------------------------------------------------------
(* Nodes *)

\* The delete button of a rendered TableNode calls data.onDelete(id).
onDeleteNode(id) ==
    /\ id \in NodeIds
    /\ nodes' = FilterNodes(nodes, id)
    /\ edges' = FilterEdgesOfNode(edges, id)
    /\ Persist(nodes', edges')
    /\ last' = [op |-> "onDeleteNode", arg |-> <<id>>]
    /\ UNCHANGED <<tableName, schemaText, selectedColor, relType,
                   edgeToDelete, editingNodeId, legend, now>>

\* The header of a rendered TableNode calls data.onEdit(id, data).
onStartEdit(id, data) ==
    /\ editingNodeId' = id
    /\ tableName' = data.label
    /\ schemaText' = FormatColumns(data.columns)
    /\ selectedColor' = data.color
    /\ last' = [op |-> "onStartEdit", arg |-> <<>>]
    /\ UNCHANGED <<nodes, edges, relType, edgeToDelete, legend, storage, now>>

\* onNodesChange with the position change of a drag (applyNodeChanges);
\* selection and dimension changes touch no field kept here.
onNodesChange(id, position) ==
    /\ id \in NodeIds
    /\ nodes' = [k \in 1..Len(nodes) |->
                    IF nodes[k].id = id
                    THEN [nodes[k] EXCEPT !.position = position]
                    ELSE nodes[k]]
    /\ Persist(nodes', edges)
    /\ last' = [op |-> "onNodesChange", arg |-> <<>>]
    /\ UNCHANGED <<edges, tableName, schemaText, selectedColor, relType,
                   edgeToDelete, editingNodeId, legend, now>>

\* newNodeData (the onDelete / onEdit callbacks are the same two functions
\* in every node and are left out).
NewNodeData ==
    [label |-> tableName, columns |-> ParseColumns(schemaText),
     color |-> selectedColor]

\* nds.map(n => n.id === editingNodeId ? { ...n, data: newNodeData } : n)
\* Variant of UpdateNodes that rebuilds the node instead of spreading it:
\* the position falls back to that of a new node.
UpdateNodesResetPosition(nds, id, data) ==
    [k \in 1..Len(nds) |->
        IF nds[k].id = id
        THEN [nds[k] EXCEPT !.data = data, !.position = NewNodePosition]
        ELSE nds[k]]

UpdateNodes(nds, id, data) ==
    [k \in 1..Len(nds) |->
        IF nds[k].id = id THEN [nds[k] EXCEPT !.data = data] ELSE nds[k]]

\* addTable after its first line: the update of the edited node, or the
\* creation of a node with id `node_${Date.now()}`.
addTableSubmit ==
    IF editingNodeId # NULL
    THEN /\ nodes' = UpdateNodes(nodes, editingNodeId, NewNodeData)
         /\ Persist(nodes', edges)
         /\ editingNodeId' = NULL
         /\ tableName' = ""
         /\ schemaText' = <<>>
         /\ last' = [op |-> "addTable", arg |-> <<"update", editingNodeId>>]
         /\ UNCHANGED <<edges, selectedColor, relType, edgeToDelete, legend, now>>
    ELSE /\ Len(nodes) < MaxNodes
         /\ \E t \in DateNow :
              /\ now' = t
              /\ nodes' = Append(nodes,
                     [id |-> <<"node", t>>, type |-> "tableNode",
                      position |-> NewNodePosition, data |-> NewNodeData])
              /\ last' = [op |-> "addTable", arg |-> <<"create", t>>]
         /\ Persist(nodes', edges)
         /\ tableName' = ""
         /\ schemaText' = <<>>
         /\ UNCHANGED <<edges, selectedColor, relType, edgeToDelete,
                        editingNodeId, legend>>

\* Variant of addTable without `if (!tableName) return`.
addTableNoGuard == addTableSubmit

addTable ==
    IF tableName = ""
    THEN /\ last' = [op |-> "addTable", arg |-> <<"return">>]
         /\ UNCHANGED <<nodes, edges, tableName, schemaText, selectedColor,
                        relType, edgeToDelete, editingNodeId, legend, storage, now>>
    ELSE addTableSubmit

----------------------------------------------------------------------------
(* Edges *)

\* ReactFlow calls onConnect with the two handles the user joined; both
\* belong to rendered nodes.
onConnect(params) ==
    /\ params.source \in NodeIds
    /\ params.target \in NodeIds
    /\ params.sourceHandle \in SourceHandles
    /\ params.targetHandle \in TargetHandles
    /\ Len(edges) < MaxEdges
    /\ \E t \in DateNow :
         LET m == MarkersOf(relType)
             edge == [source |-> params.source,
                      sourceHandle |-> params.sourceHandle,
                      target |-> params.target,
                      targetHandle |-> params.targetHandle,
                      id |-> <<"e", t>>,
                      type |-> "smoothstep",
                      markerStart |-> m[1],
                      markerEnd |-> m[2]]
         IN  /\ now' = t
             /\ edges' = addEdge(edge, edges)
             /\ last' = [op |-> "onConnect", arg |-> <<>>]
    /\ Persist(nodes, edges')
    /\ UNCHANGED <<nodes, tableName, schemaText, selectedColor, relType,
                   edgeToDelete, editingNodeId, legend>>

\* onClick of the delete-link button
deleteLink ==
    /\ edges' = FilterEdgesById(edges, edgeToDelete)
    /\ edgeToDelete' = NULL
    /\ Persist(nodes, edges')
    /\ last' = [op |-> "deleteLink", arg |-> <<edgeToDelete>>]
    /\ UNCHANGED <<nodes, tableName, schemaText, selectedColor, relType,
                   editingNodeId, legend, now>>

----------------------------------------------------------------------------
(* Export *)

\* exportDiagram(format).  The .react-flow element is rendered whenever the
\* application is; toSvg / toPng either resolve or reject.  The download (or
\* the alert) is the only effect, recorded in last.
\* Variant of exportDiagram that applies the legendBuffer / margin shift to
\* the nodes of the diagram instead of the cloned viewport.
exportDiagramShiftsNodes(format) ==
    /\ nodes' = [k \in 1..Len(nodes) |->
                    [nodes[k] EXCEPT !.position =
                        [x |-> @.x + 300, y |-> @.y + 100]]]
    /\ Persist(nodes', edges)
    /\ last' = [op |-> "exportDiagram", arg |-> <<format, "download">>]
    /\ UNCHANGED <<edges, tableName, schemaText, selectedColor, relType,
                   edgeToDelete, editingNodeId, legend, now>>

exportDiagram(format) ==
    /\ IF format = "json"
       THEN \E t \in DateNow :
              /\ now' = t
              /\ last' = [op |-> "exportDiagram", arg |-> <<format, "download">>]
       ELSE IF Len(nodes) = 0
       THEN /\ now' = now
            /\ last' = [op |-> "exportDiagram", arg |-> <<format, "return">>]
       ELSE \E t \in DateNow, outcome \in {"download", "alert"} :
              /\ now' = t
              /\ last' = [op |-> "exportDiagram", arg |-> <<format, outcome>>]
    /\ UNCHANGED <<nodes, edges, tableName, schemaText, selectedColor, relType,
                   edgeToDelete, editingNodeId, legend, storage>>

----------------------------------------------------------------------------
(* Specification of the column parser: the schema box holds any text made *)
(* of at most MaxTokens pieces, the table name is filled in, and the form *)
(* is submitted; the table is dragged, reopened for editing and submitted *)
(* again.                                                                 *)

Tokens ==
    { <<"a">>, <<" ">>, <<",">>, Str_pk, Str_FK, Str_ck,
      <<"(", "p">>, <<"k", ")">> }

RECURSIVE TextsOf(_)
TextsOf(n) ==
    IF n = 0 THEN {<<>>}
    ELSE LET shorter == TextsOf(n - 1)
         IN  shorter \cup {s \o t : s \in shorter, t \in Tokens}

Texts == TextsOf(MaxTokens)

InitParse ==
    /\ nodes = <<>>
    /\ edges = <<>>
    /\ tableName = "A"
    /\ schemaText \in Texts
    /\ selectedColor = "#fbbf24"
    /\ relType = "1:N"
    /\ edgeToDelete = NULL
    /\ editingNodeId = NULL
    /\ legend = INITIAL_LEGEND
    /\ storage = [nodes |-> <<>>, edges |-> <<>>, legend |-> <<>>]
    /\ now = 0
    /\ last = [op |-> "setSchemaText", arg |-> <<>>]

NextParse ==
    \/ addTable
    \/ \E i \in 1..Len(nodes) : onStartEdit(nodes[i].id, nodes[i].data)
    \/ \E id \in NodeIds : onNodesChange(id, DraggedPosition)

SpecParse == InitParse /\ [][NextParse]_vars

----------------------------------------------------------------------------
(* What the claims say about the parser, stated over character positions *)

\* The k-th smallest element of a finite set of integers.
Nth(S, k) == CHOOSE x \in S : Cardinality({y \in S : y <= x}) = k

\* The characters of s at the positions in P, in order.
Restrict(s, P) == [k \in 1..Cardinality(P) |-> s[Nth(P, k)]]

\* s without its leading and trailing white space.
Core(s) ==
    LET solid == {i \in 1..Len(s) : ~IsWhitespace(s[i])}
    IN  IF solid = {} THEN <<>>
        ELSE SubSeq(s, Nth(solid, 1), Nth(solid, Cardinality(solid)))

\* The comma-separated items of a text.
CommaAt(text) == {i \in 1..Len(text) : text[i] = ","}

ItemOf(text, k) ==
    LET commas == CommaAt(text)
        from == IF k = 1 THEN 1 ELSE Nth(commas, k - 1) + 1
        to == IF k = Cardinality(commas) + 1 THEN Len(text) ELSE Nth(commas, k) - 1
    IN  SubSeq(text, from, to)

\* The positions where a marker for one of the letters starts.
MarkerStarts(item, letters) ==
    {i \in 1..(Len(item) - 3) :
        /\ item[i] = "("
        /\ item[i + 1] \in letters
        /\ item[i + 2] \in {"k", "K"}
        /\ item[i + 3] = ")"}

HasMarker(item, letters) == MarkerStarts(item, letters) # {}

\* The item with the characters of every marker taken out, then trimmed.
NameOf(item) ==
    LET starts == MarkerStarts(item, {"p", "P", "f", "F", "c", "C"})
        keep == {p \in 1..Len(item) : \A i \in starts : p < i \/ p > i + 3}
    IN  Core(Restrict(item, keep))

ExpectedColumns(text) ==
    LET count == Cardinality(CommaAt(text)) + 1
        solid == {k \in 1..count : Core(ItemOf(text, k)) # <<>>}
    IN  [j \in 1..Cardinality(solid) |->
            LET item == ItemOf(text, Nth(solid, j))
            IN  [name |-> NameOf(item),
                 isPK |-> HasMarker(item, {"p", "P"}),
                 isFK |-> HasMarker(item, {"f", "F"}),
                 isCK |-> HasMarker(item, {"c", "C"})]]

\* C1: when addTable creates a table, its column list is, in order, one
\* column per comma-separated item of the schema text that is non-empty
\* after trimming, flagged isPK / isFK / isCK exactly when the item holds
\* the marker (pk) / (fk) / (ck) in any letter case, and named by the item
\* with every marker removed and then trimmed; when it updates a table,
\* the edited table gets that column list.
C1_ColumnParsing ==
    [][ (last'.op = "addTable" /\ last'.arg[1] # "return") =>
          /\ last'.arg[1] = "create" =>
                nodes'[Len(nodes')].data.columns = ExpectedColumns(schemaText)
          /\ last'.arg[1] = "update" =>
                \A k \in 1..Len(nodes') :
                    nodes'[k].id = editingNodeId =>
                        nodes'[k].data.columns = ExpectedColumns(schemaText)
      ]_vars

\* C1 witness: a table created from a text of two items, the first a plain
\* name, the second carrying a marker written in upper case.
C1_Witness ==
    /\ last.op = "addTable"
    /\ last.arg[1] = "create"
    /\ Len(nodes) = 1
    /\ Len(nodes[1].data.columns) = 2
    /\ nodes[1].data.columns[1].name = <<"a">>
    /\ ~nodes[1].data.columns[1].isFK
    /\ nodes[1].data.columns[2].isFK
    /\ ~nodes[1].data.columns[2].isPK

\* C4: no column of any table node has the empty string as its name.
C4_ColumnNamesNonEmpty ==
    \A k \in 1..Len(nodes) :
        \A j \in 1..Len(nodes[k].data.columns) :
            nodes[k].data.columns[j].name # <<>>

----------------------------------------------------------------------------
(* Specification of the diagram: tables are added, edited and deleted,    *)
(* handles are connected under each relationship type, links are selected *)
(* and deleted.  The schema box and the swatch stay as first loaded.      *)

TableNames == {"A"}

\* The handle pairs the connections of this specification are drawn over.
DiagramSourceHandles == {"right-source"}
DiagramTargetHandles == {"left-target"}

NextDiagram ==
    \/ \E v \in TableNames : setTableName(v)
    \/ addTable
    \/ \E i \in 1..Len(nodes) : onStartEdit(nodes[i].id, nodes[i].data)
    \/ \E id \in NodeIds : onDeleteNode(id)
    \/ \E s \in NodeIds, t \in NodeIds,
          sh \in DiagramSourceHandles, th \in DiagramTargetHandles :
          onConnect([source |-> s, sourceHandle |-> sh,
                     target |-> t, targetHandle |-> th])
    \/ \E v \in {NULL} \cup EdgeIds : setEdgeToDelete(v)
    \/ deleteLink

SpecDiagram == Init /\ [][NextDiagram]_vars

\* C2: every edge connects two table nodes that are in the diagram: the
\* source and the target of every edge are ids of nodes in nodes.
C2_EdgesConnectNodes ==
    \A k \in 1..Len(edges) :
        /\ edges[k].source \in NodeIds
        /\ edges[k].target \in NodeIds

\* C2 witness: a node has just been deleted from a diagram that still holds
\* a node and an edge.
C2_Witness ==
    /\ last.op = "onDeleteNode"
    /\ Len(nodes) = 1
    /\ Len(edges) = 1

C10_DeleteLinkRemovesOne ==
    [][ last'.op = "deleteLink" =>
          /\ Len(edges') >= Len(edges) - 1
          /\ edges' = Restrict(edges, {k \in 1..Len(edges) :
                                          edges[k].id # edgeToDelete})
          /\ nodes' = nodes
          /\ edgeToDelete' = NULL
          /\ (edgeToDelete \notin EdgeIds => edges' = edges)
      ]_vars

----------------------------------------------------------------------------
(* Specification of the relationship types: tables are added, the type is *)
(* chosen in the select and handles are connected.                        *)

NextRel ==
    \/ \E v \in TableNames : setTableName(v)
    \/ addTable
    \/ \E v \in RelTypes : setRelType(v)
    \/ \E s \in NodeIds, t \in NodeIds,
          sh \in DiagramSourceHandles, th \in DiagramTargetHandles :
          onConnect([source |-> s, sourceHandle |-> sh,
                     target |-> t, targetHandle |-> th])

SpecRel == Init /\ [][NextRel]_vars

\* C3: the edge onConnect creates carries the markers of the relationship
\* type selected when the connection is made: 1:1 no start marker and a
\* closed arrow at the end, 1:N no start marker and 'many-side' at the end,
\* N:M 'many-side' at both ends; the three pairs are pairwise distinct.
C3_MarkersFollowRelType ==
    [][ (last'.op = "onConnect" /\ Len(edges') = Len(edges) + 1) =>
          LET e == edges'[Len(edges')]
              pair == <<e.markerStart, e.markerEnd>>
              expected == [r \in RelTypes |->
                  CASE r = "1:1" -> <<Undefined, ArrowClosedMarker>>
                    [] r = "1:N" -> <<Undefined, <<"many-side">> >>
                    [] r = "N:M" -> << <<"many-side">>, <<"many-side">> >>]
          IN  /\ pair = expected[relType]
              /\ \A r \in RelTypes \ {relType} : pair # expected[r]
              /\ \A k \in 1..Len(edges) : edges'[k] = edges[k]
      ]_vars

\* C3 witness: a diagram with a 1:1 edge and an N:M edge.
C3_Witness ==
    /\ last.op = "onConnect"
    /\ Len(edges) = 2
    /\ edges[1].markerStart = Undefined
    /\ edges[1].markerEnd = ArrowClosedMarker
    /\ edges[2].markerStart = ManySide
    /\ edges[2].markerEnd = ManySide

----------------------------------------------------------------------------
(* The application loaded with a diagram an earlier session saved: the    *)
(* useState initialisers read nodes and edges from localStorage.  The     *)
(* saved diagram is one table that was dragged and connected to itself.   *)

SavedDiagram ==
    [nodes |-> << [id |-> <<"node", 0>>, type |-> "tableNode",
                   position |-> DraggedPosition,
                   data |-> [label |-> "A", columns |-> <<>>,
                             color |-> INITIAL_LEGEND[1].hex]] >>,
     edges |-> << [source |-> <<"node", 0>>, sourceHandle |-> "right-source",
                   target |-> <<"node", 0>>, targetHandle |-> "left-target",
                   id |-> <<"e", 0>>, type |-> "smoothstep",
                   markerStart |-> Undefined, markerEnd |-> ManySide] >>,
     legend |-> <<>>]

EmptyStorage == [nodes |-> <<>>, edges |-> <<>>, legend |-> <<>>]

InitLoaded ==
    /\ storage \in {EmptyStorage, SavedDiagram}
    /\ nodes = storage.nodes
    /\ edges = storage.edges
    /\ legend = IF storage.legend = <<>> THEN INITIAL_LEGEND ELSE storage.legend
    /\ tableName = ""
    /\ schemaText = <<>>
    /\ selectedColor = "#fbbf24"
    /\ relType = "1:N"
    /\ edgeToDelete = NULL
    /\ editingNodeId = NULL
    /\ now = 0
    /\ last = [op |-> "init", arg |-> <<>>]

----------------------------------------------------------------------------
(* Specification of the form: the name, the schema text and the swatch    *)
(* are filled in, tables are created, opened for editing, updated and     *)
(* deleted.                                                               *)

EditTableNames == {"", "B"}
EditSchemaTexts == {<<>>, <<"a", " ">> \o Str_pk}
EditColors == {INITIAL_LEGEND[1].hex, INITIAL_LEGEND[2].hex}

NextEdit ==
    \/ \E v \in EditTableNames : setTableName(v)
    \/ \E v \in EditSchemaTexts : setSchemaText(v)
    \/ \E k \in 1..Len(legend) :
          legend[k].hex \in EditColors /\ setSelectedColor(legend[k].hex)
    \/ addTable
    \/ \E i \in 1..Len(nodes) : onStartEdit(nodes[i].id, nodes[i].data)
    \/ \E id \in NodeIds : onDeleteNode(id)

SpecEdit == InitLoaded /\ [][NextEdit]_vars

\* C7: submitting the form while a table is being edited (editingNodeId
\* set, table name not empty) creates no node: the node whose id is
\* editingNodeId gets the label, columns and colour of the form and keeps
\* its id, type and position, every other node and every edge is unchanged,
\* and afterwards editingNodeId is null and tableName and schemaText are
\* empty.
C7_SubmitWhileEditingUpdates ==
    [][ (last'.op = "addTable" /\ editingNodeId # NULL /\ tableName # "") =>
          /\ Len(nodes') = Len(nodes)
          /\ \A k \in 1..Len(nodes) :
                IF nodes[k].id = editingNodeId
                THEN /\ nodes'[k].data.label = tableName
                     /\ nodes'[k].data.columns = ExpectedColumns(schemaText)
                     /\ nodes'[k].data.color = selectedColor
                     /\ nodes'[k].id = nodes[k].id
                     /\ nodes'[k].type = nodes[k].type
                     /\ nodes'[k].position = nodes[k].position
                ELSE nodes'[k] = nodes[k]
          /\ edges' = edges
          /\ editingNodeId' = NULL
          /\ tableName' = ""
          /\ schemaText' = <<>>
      ]_vars

\* C7 witness: the dragged table of the saved diagram has been updated to a
\* new label, column list and colour next to a second table, the edge kept.
C7_Witness ==
    /\ last.op = "addTable"
    /\ last.arg[1] = "update"
    /\ Len(nodes) = 2
    /\ Len(edges) = 1
    /\ nodes[1].id = last.arg[2]
    /\ nodes[2].id # last.arg[2]
    /\ nodes[1].position = DraggedPosition
    /\ nodes[1].data.label = "B"
    /\ Len(nodes[1].data.columns) = 1
    /\ nodes[1].data.color = INITIAL_LEGEND[2].hex
    /\ nodes[2].data.columns = <<>>
    /\ editingNodeId = NULL

\* C8: addTable with an empty table name changes nothing, in create and in
\* edit mode: nodes, edges, editingNodeId, schemaText and selectedColor
\* stay as they are.
C8_EmptyNameNoOp ==
    [][ (last'.op = "addTable" /\ tableName = "") =>
          UNCHANGED <<nodes, edges, editingNodeId, schemaText, selectedColor>>
      ]_vars

\* C8 witness: the form was submitted with an empty name while a table was
\* open for editing and the schema box and the swatch were filled in.
C8_Witness ==
    /\ last.op = "addTable"
    /\ tableName = ""
    /\ editingNodeId \in NodeIds
    /\ schemaText # <<>>
    /\ selectedColor = INITIAL_LEGEND[2].hex
    /\ Len(nodes) = 2

----------------------------------------------------------------------------
(* Specification of the legend and the export: legend entries are         *)
(* renamed and the diagram is exported in each format, while tables are   *)
(* created and opened for editing.                                        *)

\* Two entries of the legend and an id no entry has.
RenameIds == {INITIAL_LEGEND[1].id, INITIAL_LEGEND[2].id, "11"}
NewNames == {"", "Facts"}
ExportFormats == {"json", "svg", "png"}

NextSide ==
    \/ \E v \in EditTableNames : setTableName(v)
    \/ addTable
    \/ \E i \in 1..Len(nodes) : onStartEdit(nodes[i].id, nodes[i].data)
    \/ \E id \in RenameIds, newName \in NewNames : handleRenameLegend(id, newName)
    \/ \E format \in ExportFormats : exportDiagram(format)

SpecSide == InitLoaded /\ [][NextSide]_vars

\* C5: handleRenameLegend(id, newName) changes only the name of the entry
\* whose id is id: the number and order of the entries, every id and hex,
\* the names of the other entries, the nodes and the edges are unchanged;
\* an id matching no entry changes nothing.
C5_RenameOnlyName ==
    [][ last'.op = "handleRenameLegend" =>
          LET id == last'.arg[1]
              newName == last'.arg[2]
          IN  /\ Len(legend') = Len(legend)
              /\ \A k \in 1..Len(legend) :
                    /\ legend'[k].id = legend[k].id
                    /\ legend'[k].hex = legend[k].hex
                    /\ legend'[k].name =
                          IF legend[k].id = id THEN newName ELSE legend[k].name
              /\ nodes' = nodes
              /\ edges' = edges
              /\ (\A k \in 1..Len(legend) : legend[k].id # id) => legend' = legend
      ]_vars

\* C5 witness: the second entry has just been renamed in a diagram that
\* holds a table and an edge; the first entry keeps its name.
C5_Witness ==
    /\ last.op = "handleRenameLegend"
    /\ last.arg = <<"2", "Facts">>
    /\ legend[2].name = "Facts"
    /\ legend[1].name = "Reporting"
    /\ Len(nodes) >= 1
    /\ Len(edges) = 1

\* C6: exportDiagram(format) is read-only for json, svg and png, whether it
\* downloads a file, returns early without nodes or fails: nodes, edges,
\* legend, tableName, schemaText, selectedColor, relType and editingNodeId
\* are unchanged.
C6_ExportReadOnly ==
    [][ last'.op = "exportDiagram" =>
          UNCHANGED <<nodes, edges, legend, tableName, schemaText,
                      selectedColor, relType, editingNodeId>>
      ]_vars

\* C6 witness: an image export has just failed while a table was open for
\* editing, with a renamed legend entry and an edge in the diagram.
C6_Witness ==
    /\ last.op = "exportDiagram"
    /\ last.arg = <<"svg", "alert">>
    /\ editingNodeId \in NodeIds
    /\ tableName # ""
    /\ Len(edges) = 1
    /\ legend[1].name = "Facts"

----------------------------------------------------------------------------
(* Edit round trip, under SpecParse: a table is opened for editing and the *)
(* form is submitted by the very next step, no field touched in between.   *)

\* C11: opening a table node for editing (onStartEdit) and submitting the
\* form straight away (addTable) leaves the node's label, colour and
\* columns (names and isPK / isFK / isCK flags, in order) as they were.
C11_EditRoundTrip ==
    [][ (last.op = "onStartEdit" /\ last'.op = "addTable") =>
          /\ Len(nodes') = Len(nodes)
          /\ \A k \in 1..Len(nodes) :
                nodes[k].id = editingNodeId =>
                    /\ nodes'[k].data.label = nodes[k].data.label
                    /\ nodes'[k].data.color = nodes[k].data.color
                    /\ nodes'[k].data.columns = nodes[k].data.columns
      ]_vars

====
